---- MODULE Spec2Model ----
(***************************************************************************)
(* gocluster-cli: the operator invocation path of cmd/cli/main.go.         *)
(*                                                                         *)
(*   SpecV  validateAndConvertParams / convertValue as pure functions.     *)
(*   Spec   one run of `gocluster operator trigger`: cluster selection,    *)
(*          schema fetch over the read path, operation lookup, validation  *)
(*          of both namespaces, the single POST, response interpretation.  *)
(*   SpecC  convertValue alone.                                            *)
(*   SpecL  the row loops of `nodes` and `operator list`.                  *)
(*   SpecK  every cluster command, by the HTTP requests it sends.          *)
(*   SpecU  successive `use` commands over one configuration file.         *)
(*                                                                         *)
(* Go ranges over maps in an unspecified order, so every `range` over a    *)
(* map is modelled by an explicit order that the action picks.             *)
(* Text handed to strconv is a sequence of one-character strings.          *)
(***************************************************************************)
EXTENDS Integers, Sequences, FiniteSets, TLC

VARIABLES
    vpc,          \* SpecV: "call" before, "ret" after validateAndConvertParams
    vParams,      \* SpecV: the supplied map[string]string
    vSchema,      \* SpecV: the map[string]ParamSchema
    vOut,         \* SpecV: the (result, error) pair returned
    cpc,          \* SpecC: "call" before, "ret" after convertValue
    cValue,       \* SpecC: the value argument
    cType,        \* SpecC: the targetType argument
    cOut,         \* SpecC: the (value, error) pair returned
    pc,           \* position of triggerOperator
    config,       \* global config: Clusters, SelectedCluster
    args,         \* positional arguments: operatorName, operationName
    flags,        \* --params, --config, --parallel, --nodes as read by the handler
    cluster,      \* *ClusterConfig returned by getSelectedCluster
    tried,        \* fetchFromAPI: the GETs made so far, in order, with what came back
    lastErr,      \* fetchFromAPI: lastErr
    fetched,      \* (resp, err) returned by fetchFromAPI
    schema,       \* (*OperatorSchema, err) returned by fetchOperatorSchema
    validated,    \* validatedParams / validatedConfig with their errors
    posts,        \* every HTTP POST sent, in order
    postRes,      \* (resp, err) of the POST: client.Do and the decoding of its body
    out,          \* what the handler printed, in order
    lpc,          \* SpecL: position of listNodes / listOperators
    lCmd,         \* SpecL: "nodes" or "operator list"
    lData,        \* SpecL: resp.Data as decoded by encoding/json
    lIdx,         \* SpecL: index of the next row of the range over the rows
    lTable,       \* SpecL: rows handed to table.Append so far
    lOut,         \* SpecL: what the command printed, in order
    kpc,          \* SpecK: position of the cluster command
    kCmd,         \* SpecK: the cluster command that runs
    kConfig,      \* SpecK: global config
    kCalls,       \* SpecK: API calls the command has still to make
    kReqs,        \* SpecK: every HTTP request sent, in order
    kOut,         \* SpecK: what the command printed, in order
    upc,          \* SpecU: "prompt" between commands, "run" inside useCluster
    uFile,        \* SpecU: selected_cluster of the configuration file
    uMem,         \* SpecU: config.SelectedCluster of the last process
    uLog,         \* SpecU: the names given to `use` so far
    uOut          \* SpecU: what the last `use` printed

vars == <<vpc, vParams, vSchema, vOut, cpc, cValue, cType, cOut, pc, config, args, flags, cluster, tried,
          lastErr, fetched, schema, validated, posts, postRes, out,
          lpc, lCmd, lData, lIdx, lTable, lOut, kpc, kCmd, kConfig, kCalls, kReqs, kOut,
          upc, uFile, uMem, uLog, uOut>>

vvars == <<vpc, vParams, vSchema, vOut>>
cvars == <<cpc, cValue, cType, cOut>>
lvars == <<lpc, lCmd, lData, lIdx, lTable, lOut>>
kvars == <<kpc, kCmd, kConfig, kCalls, kReqs, kOut>>
uvars == <<upc, uFile, uMem, uLog, uOut>>
\* the variables of the specifications other than Spec
fvars == <<vvars, cvars, lvars, kvars, uvars>>
tvars == <<pc, config, args, flags, cluster, tried, lastErr, fetched, schema,
           validated, posts, postRes, out>>

(***************************************************************************)
(* Bounds                                                                  *)
(***************************************************************************)
MaxNodes == 3

(***************************************************************************)
(* Small helpers                                                           *)
(***************************************************************************)
EmptyMap == <<>>

Range(s) == {s[i] : i \in DOMAIN s}

\* all orders in which a `range` may visit the keys S
Orders(S) ==
    {o \in [1..Cardinality(S) -> S] : \A i, j \in 1..Cardinality(S) : i /= j => o[i] /= o[j]}

\* all maps from a subset of K to V
Maps(K, V) == UNION {[D -> V] : D \in SUBSET K}

(***************************************************************************)
(* Go values held in interface{}                                           *)
(***************************************************************************)
Nil == [t |-> "nil"]
GoString(s) == [t |-> "string", v |-> s]
GoInt(n) == [t |-> "int", v |-> n]
GoBool(b) == [t |-> "bool", v |-> b]
\* a float64 with decimal value (-1)^neg * n * 10^e, e <= 0, n without
\* trailing zeros when e < 0
GoFloat(neg, n, e) == [t |-> "float64", neg |-> neg, n |-> n, e |-> e]

NoErr == [kind |-> "nil"]

(***************************************************************************)
(* strconv                                                                 *)
(***************************************************************************)
Digits == <<"0", "1", "2", "3", "4", "5", "6", "7", "8", "9">>

IsDigit(c) == \E i \in DOMAIN Digits : Digits[i] = c

DigitVal(c) == (CHOOSE i \in DOMAIN Digits : Digits[i] = c) - 1

AllDigits(s) == \A i \in DOMAIN s : IsDigit(s[i])

RECURSIVE DecVal(_)
DecVal(s) == IF s = <<>> THEN 0
             ELSE 10 * DecVal(SubSeq(s, 1, Len(s) - 1)) + DigitVal(s[Len(s)])

HasSign(s) == s /= <<>> /\ s[1] \in {"+", "-"}

Unsigned(s) == IF HasSign(s) THEN Tail(s) ELSE s

SyntaxErr(fn, s) == [kind |-> "syntax", func |-> fn, input |-> s]

\* strconv.Atoi: optional sign, then one or more decimal digits
Atoi(s) ==
    LET body == Unsigned(s) IN
    IF body /= <<>> /\ AllDigits(body)
    THEN [val |-> GoInt(IF s[1] = "-" THEN 0 - DecVal(body) ELSE DecVal(body)), err |-> NoErr]
    ELSE [val |-> GoInt(0), err |-> SyntaxErr("Atoi", s)]

\* strconv.ParseBool: exactly these twelve spellings
ParseBool(s) ==
    IF s \in {<<"1">>, <<"t">>, <<"T">>, <<"T", "R", "U", "E">>,
              <<"t", "r", "u", "e">>, <<"T", "r", "u", "e">>}
    THEN [val |-> GoBool(TRUE), err |-> NoErr]
    ELSE IF s \in {<<"0">>, <<"f">>, <<"F">>, <<"F", "A", "L", "S", "E">>,
                   <<"f", "a", "l", "s", "e">>, <<"F", "a", "l", "s", "e">>}
    THEN [val |-> GoBool(FALSE), err |-> NoErr]
    ELSE [val |-> GoBool(FALSE), err |-> SyntaxErr("ParseBool", s)]

RECURSIVE Normalize(_, _)
Normalize(n, e) == IF e < 0 /\ n % 10 = 0 THEN Normalize(n \div 10, e + 1) ELSE [n |-> n, e |-> e]

\* position of the first occurrence of c in s, 0 when there is none
IndexOf(s, c) == IF \E i \in DOMAIN s : s[i] = c
                 THEN CHOOSE i \in DOMAIN s : s[i] = c /\ \A j \in 1..(i - 1) : s[j] /= c
                 ELSE 0

\* strconv.ParseFloat(s, 64) on decimal literals: [sign] digits [. digits],
\* at least one digit; hexadecimal, exponent, underscore and inf/nan forms
\* do not occur among the literals of this model
ParseFloat(s) ==
    LET body == Unsigned(s)
        dot == IndexOf(body, ".")
        ip == IF dot = 0 THEN body ELSE SubSeq(body, 1, dot - 1)
        fp == IF dot = 0 THEN <<>> ELSE SubSeq(body, dot + 1, Len(body))
        nz == Normalize(DecVal(ip \o fp), 0 - Len(fp))
    IN IF AllDigits(ip) /\ AllDigits(fp) /\ Len(ip) + Len(fp) > 0
       THEN [val |-> GoFloat(HasSign(s) /\ s[1] = "-", nz.n, nz.e), err |-> NoErr]
       ELSE [val |-> GoFloat(FALSE, 0, 0), err |-> SyntaxErr("ParseFloat", s)]

(***************************************************************************)
(* convertValue                                                            *)
(***************************************************************************)
convertValue_passUnknown(value, targetType) ==
    CASE targetType = "int" -> Atoi(value)
      [] targetType = "bool" -> ParseBool(value)
      [] targetType = "float" -> ParseFloat(value)
      [] OTHER -> [val |-> GoString(value), err |-> NoErr]

convertValue(value, targetType) ==
    CASE targetType = "string" -> [val |-> GoString(value), err |-> NoErr]
      [] targetType = "int" -> Atoi(value)
      [] targetType = "bool" -> ParseBool(value)
      [] targetType = "float" -> ParseFloat(value)
      [] OTHER -> [val |-> Nil, err |-> [kind |-> "unsupported", type |-> targetType]]

(***************************************************************************)
(* validateAndConvertParams                                                *)
(***************************************************************************)
ParamSchema(type, required, default) ==
    [Type |-> type, Required |-> required, Default |-> default]

\* (nil, err)
Fail(err) == [nil |-> TRUE, m |-> EmptyMap, err |-> err]

\* (result, nil)
Ok(result) == [nil |-> FALSE, m |-> result, err |-> NoErr]

\* result[name] = value
Put(result, name, value) == (name :> value) @@ result

\* body of the first loop for one schema entry; ret says the function returned
RequiredCheck_skipMissing(name, params, sch, result) ==
    IF sch[name].Required /\ name \notin DOMAIN params /\ sch[name].Default /= Nil
    THEN [ret |-> FALSE, result |-> Put(result, name, sch[name].Default)]
    ELSE [ret |-> FALSE, result |-> result]

RequiredCheck_requireAll(name, params, sch, result) ==
    IF name \notin DOMAIN params
    THEN IF sch[name].Default /= Nil
         THEN [ret |-> FALSE, result |-> Put(result, name, sch[name].Default)]
         ELSE [ret |-> TRUE, out |-> Fail([kind |-> "missing", name |-> name])]
    ELSE [ret |-> FALSE, result |-> result]

RequiredCheck(name, params, sch, result) ==
    IF sch[name].Required
    THEN IF name \notin DOMAIN params
         THEN IF sch[name].Default /= Nil
              THEN [ret |-> FALSE, result |-> Put(result, name, sch[name].Default)]
              ELSE [ret |-> TRUE, out |-> Fail([kind |-> "missing", name |-> name])]
         ELSE [ret |-> FALSE, result |-> result]
    ELSE [ret |-> FALSE, result |-> result]

\* body of the second loop for one supplied key
ConvertParam_dropUnknown(name, params, sch, result) ==
    IF name \notin DOMAIN sch
    THEN [ret |-> FALSE, result |-> result]
    ELSE LET c == convertValue(params[name], sch[name].Type) IN
         IF c.err /= NoErr
         THEN [ret |-> TRUE, out |-> Fail([kind |-> "param", name |-> name, cause |-> c.err])]
         ELSE [ret |-> FALSE, result |-> Put(result, name, c.val)]

ConvertParam_keepDefault(name, params, sch, result) ==
    IF name \notin DOMAIN sch
    THEN [ret |-> TRUE, out |-> Fail([kind |-> "unknown", name |-> name])]
    ELSE LET c == convertValue(params[name], sch[name].Type) IN
         IF c.err /= NoErr
         THEN [ret |-> TRUE, out |-> Fail([kind |-> "param", name |-> name, cause |-> c.err])]
         ELSE IF sch[name].Default /= Nil
         THEN [ret |-> FALSE, result |-> Put(result, name, sch[name].Default)]
         ELSE [ret |-> FALSE, result |-> Put(result, name, c.val)]

ConvertParam_zeroOnError(name, params, sch, result) ==
    IF name \notin DOMAIN sch
    THEN [ret |-> TRUE, out |-> Fail([kind |-> "unknown", name |-> name])]
    ELSE [ret |-> FALSE,
          result |-> Put(result, name, convertValue(params[name], sch[name].Type).val)]

ConvertParam(name, params, sch, result) ==
    IF name \notin DOMAIN sch
    THEN [ret |-> TRUE, out |-> Fail([kind |-> "unknown", name |-> name])]
    ELSE LET c == convertValue(params[name], sch[name].Type) IN
         IF c.err /= NoErr
         THEN [ret |-> TRUE, out |-> Fail([kind |-> "param", name |-> name, cause |-> c.err])]
         ELSE [ret |-> FALSE, result |-> Put(result, name, c.val)]

RECURSIVE ConvertLoop(_, _, _, _)
ConvertLoop(order, params, sch, result) ==
    IF order = <<>> THEN Ok(result)
    ELSE LET s == ConvertParam(Head(order), params, sch, result) IN
         IF s.ret THEN s.out ELSE ConvertLoop(Tail(order), params, sch, s.result)

RECURSIVE RequiredLoop(_, _, _, _, _)
RequiredLoop(order, porder, params, sch, result) ==
    IF order = <<>> THEN ConvertLoop(porder, params, sch, result)
    ELSE LET s == RequiredCheck(Head(order), params, sch, result) IN
         IF s.ret THEN s.out ELSE RequiredLoop(Tail(order), porder, params, sch, s.result)

validateAndConvertParams_convertFirst(params, sch, sorder, porder) ==
    LET c == ConvertLoop(porder, params, sch, EmptyMap) IN
    IF c.nil THEN c ELSE RequiredLoop(sorder, <<>>, params, sch, c.m)

\* sorder, porder: the orders in which the two ranges visit schema and params
validateAndConvertParams(params, sch, sorder, porder) ==
    RequiredLoop(sorder, porder, params, sch, EmptyMap)

\* every (result, err) some pair of iteration orders can produce
ValidateOutcomes(params, sch) ==
    {validateAndConvertParams(params, sch, so, po) :
        so \in Orders(DOMAIN sch), po \in Orders(DOMAIN params)}

(***************************************************************************)
(* SpecV: validateAndConvertParams on bounded inputs                       *)
(***************************************************************************)
Lit_ns1 == <<"n", "s", "1">>
Lit_55 == <<"5", "5">>
Lit_40 == <<"4", "0">>
Lit_abc == <<"a", "b", "c">>

\* JSON numbers decode into interface{} as float64
Default70 == GoFloat(FALSE, 70, 0)

ParamNames == {"name", "high_water_disk_pct"}
SuppliedNames == ParamNames \cup {"bogus"}
RawValues == {Lit_ns1, Lit_55, Lit_abc}
TypeNames == {"string", "int", "bool", "float", "list"}
Defaults == {Nil, Default70}

ParamSchemas == {ParamSchema(t, r, d) : t \in TypeNames, r \in BOOLEAN, d \in Defaults}

VIdle ==
    /\ vpc = "idle"
    /\ vParams = EmptyMap
    /\ vSchema = EmptyMap
    /\ vOut = Ok(EmptyMap)

CIdle ==
    /\ cpc = "idle"
    /\ cValue = <<>>
    /\ cType = ""
    /\ cOut = [val |-> Nil, err |-> NoErr]

TIdle ==
    /\ pc = "idle"
    /\ config = [SelectedCluster |-> "", Clusters |-> EmptyMap, Timeout |-> 0, Retries |-> 0]
    /\ args = EmptyMap
    /\ flags = EmptyMap
    /\ cluster = Nil
    /\ tried = <<>>
    /\ lastErr = NoErr
    /\ fetched = Nil
    /\ schema = Nil
    /\ validated = EmptyMap
    /\ posts = <<>>
    /\ postRes = Nil
    /\ out = <<>>

LIdle ==
    /\ lpc = "idle"
    /\ lCmd = ""
    /\ lData = [j |-> "null"]
    /\ lIdx = 1
    /\ lTable = <<>>
    /\ lOut = <<>>

KIdle ==
    /\ kpc = "idle"
    /\ kCmd = ""
    /\ kConfig = [SelectedCluster |-> "", Clusters |-> EmptyMap, Timeout |-> 0, Retries |-> 0]
    /\ kCalls = <<>>
    /\ kReqs = <<>>
    /\ kOut = <<>>

UIdle ==
    /\ upc = "idle"
    /\ uFile = ""
    /\ uMem = ""
    /\ uLog = <<>>
    /\ uOut = <<>>

VInit ==
    /\ vpc = "call"
    /\ vParams \in Maps(SuppliedNames, RawValues)
    /\ vSchema \in Maps(ParamNames, ParamSchemas)
    /\ vOut = Ok(EmptyMap)
    /\ CIdle
    /\ TIdle
    /\ LIdle
    /\ KIdle
    /\ UIdle

Validate ==
    /\ vpc = "call"
    /\ \E so \in Orders(DOMAIN vSchema), po \in Orders(DOMAIN vParams) :
           vOut' = validateAndConvertParams(vParams, vSchema, so, po)
    /\ vpc' = "ret"
    /\ UNCHANGED <<vParams, vSchema>>
    /\ UNCHANGED <<tvars, cvars, lvars, kvars, uvars>>

VNext == Validate

SpecV == VInit /\ [][VNext]_vars

\* schema entries that are required, have no default and were not supplied
MissingRequired(params, sch) ==
    {n \in DOMAIN sch : sch[n].Required /\ sch[n].Default = Nil /\ n \notin DOMAIN params}

\* supplied keys the schema does not know
UnknownKeys(params, sch) == DOMAIN params \ DOMAIN sch

\* supplied keys the schema knows whose value does not convert
Unconvertible(params, sch) ==
    {n \in DOMAIN params \cap DOMAIN sch : convertValue(params[n], sch[n].Type).err /= NoErr}

\* C1: when a required entry without default is absent from supplied,
\* validation returns nil and the missing-required error, and the parameter
\* the error names is such an entry (that entry when it is the only one).
C1_MissingRequiredFails ==
    (vpc = "ret" /\ MissingRequired(vParams, vSchema) /= {}) =>
        /\ vOut.nil
        /\ vOut.m = EmptyMap
        /\ vOut.err.kind = "missing"
        /\ vOut.err.name \in MissingRequired(vParams, vSchema)

C1_Witness ==
    /\ vpc = "ret"
    /\ MissingRequired(vParams, vSchema) = {"name"}
    /\ DOMAIN vParams = {"high_water_disk_pct"}
    /\ vOut = Fail([kind |-> "missing", name |-> "name"])

\* C2: every schema entry with a default (required or not) that is absent
\* from supplied appears in a successful result mapped to its default.
C2_DefaultsInjected ==
    (vpc = "ret" /\ ~vOut.nil) =>
        \A n \in DOMAIN vSchema :
            (vSchema[n].Default /= Nil /\ n \notin DOMAIN vParams) =>
                (n \in DOMAIN vOut.m /\ vOut.m[n] = vSchema[n].Default)

\* C3 as stated: a supplied key unknown to the schema always yields the
\* unknown-parameter error naming such a key.
C3_UnknownAlwaysUnknownError ==
    (vpc = "ret" /\ UnknownKeys(vParams, vSchema) /= {}) =>
        /\ vOut.nil
        /\ vOut.err.kind = "unknown"
        /\ vOut.err.name \in UnknownKeys(vParams, vSchema)

\* C3 amended: a supplied key unknown to the schema always makes validation
\* fail with nil result; the error is missing-required when a required entry
\* without default is absent, otherwise unknown-parameter naming an unknown
\* key or a conversion error on another supplied key, and it is the
\* unknown-parameter error whenever nothing else is wrong with the input.
C3_UnknownNeverAccepted ==
    (vpc = "ret" /\ UnknownKeys(vParams, vSchema) /= {}) =>
        /\ vOut.nil
        /\ vOut.m = EmptyMap
        /\ vOut.err.kind \in {"missing", "unknown", "param"}
        /\ vOut.err.kind = "missing" <=> MissingRequired(vParams, vSchema) /= {}
        /\ vOut.err.kind = "unknown" => vOut.err.name \in UnknownKeys(vParams, vSchema)
        /\ vOut.err.kind = "param" => vOut.err.name \in Unconvertible(vParams, vSchema)
        /\ (MissingRequired(vParams, vSchema) = {} /\ Unconvertible(vParams, vSchema) = {})
               => vOut.err.kind = "unknown"

C3_Witness ==
    /\ vpc = "ret"
    /\ "bogus" \in DOMAIN vParams
    /\ "name" \in DOMAIN vParams
    /\ "name" \in DOMAIN vSchema
    /\ vOut = Fail([kind |-> "unknown", name |-> "bogus"])

(***************************************************************************)
(* Wire entities                                                           *)
(***************************************************************************)
APIResponse(success, data, error) == [Success |-> success, Data |-> data, Error |-> error]

OperationSchema(parameters, cfg) == [Parameters |-> parameters, Config |-> cfg]

OperatorSchema(name, operations) == [Name |-> name, Operations |-> operations]

OperatorPayload(operation, params, cfg, par, targets) ==
    [Operation |-> operation, Params |-> params, Config |-> cfg,
     Parallel |-> par, TargetNodes |-> targets]

\* encoding/json: what a value held in interface{} looks like on the wire
JNull == [j |-> "null"]
JNumber(neg, n, e) == [j |-> "number", neg |-> neg, n |-> n, e |-> e]

ToJSON(v) ==
    CASE v.t = "string" -> [j |-> "string", v |-> v.v]
      [] v.t = "int" -> JNumber(v.v < 0, IF v.v < 0 THEN 0 - v.v ELSE v.v, 0)
      [] v.t = "float64" -> JNumber(v.neg, v.n, v.e)
      [] v.t = "bool" -> [j |-> "bool", v |-> v.v]
      [] OTHER -> JNull

\* a field tagged omitempty is left out when it is empty
Omitted == [j |-> "omitted"]

MarshalMap(m) == IF DOMAIN m = {} THEN Omitted ELSE [k \in DOMAIN m |-> ToJSON(m[k])]

MarshalList(l) == IF l = <<>> THEN Omitted ELSE [j |-> "array", v |-> l]

MarshalPayload_parallelDefault(p) ==
    [operation |-> p.Operation,
     config |-> MarshalMap(p.Config),
     params |-> MarshalMap(p.Params),
     parallel |-> TRUE,
     target_nodes |-> MarshalList(p.TargetNodes)]

\* json.Marshal(payload)
MarshalPayload(p) ==
    [operation |-> p.Operation,
     config |-> MarshalMap(p.Config),
     params |-> MarshalMap(p.Params),
     parallel |-> p.Parallel,
     target_nodes |-> MarshalList(p.TargetNodes)]

(***************************************************************************)
(* getSelectedCluster                                                      *)
(***************************************************************************)
getSelectedCluster_zeroCluster(cfg) ==
    IF cfg.SelectedCluster = ""
    THEN [cluster |-> Nil, err |-> [kind |-> "no_cluster_selected"]]
    ELSE IF cfg.SelectedCluster \notin DOMAIN cfg.Clusters
    THEN [cluster |-> [Name |-> "", Nodes |-> EmptyMap], err |-> NoErr]
    ELSE [cluster |-> cfg.Clusters[cfg.SelectedCluster], err |-> NoErr]

getSelectedCluster(cfg) ==
    IF cfg.SelectedCluster = ""
    THEN [cluster |-> Nil, err |-> [kind |-> "no_cluster_selected"]]
    ELSE IF cfg.SelectedCluster \notin DOMAIN cfg.Clusters
    THEN [cluster |-> Nil, err |-> [kind |-> "cluster_not_found", name |-> cfg.SelectedCluster]]
    ELSE [cluster |-> cfg.Clusters[cfg.SelectedCluster], err |-> NoErr]

(***************************************************************************)
(* fetchOperatorSchema, after fetchFromAPI has returned                    *)
(***************************************************************************)
\* json.Unmarshal(json.Marshal(resp.Data), &schema): null leaves the zero
\* OperatorSchema, an object fills it, any other JSON value is an error
DecodeSchema(data) ==
    CASE data.j = "null" -> [schema |-> OperatorSchema("", EmptyMap), err |-> NoErr]
      [] data.j = "object" -> [schema |-> data.v, err |-> NoErr]
      [] OTHER -> [schema |-> Nil, err |-> [kind |-> "unmarshal_type", got |-> data.j]]

fetchOperatorSchema(f) ==
    IF f.err /= NoErr THEN [schema |-> Nil, err |-> f.err] ELSE DecodeSchema(f.resp.Data)

(***************************************************************************)
(* Inputs of the trigger command                                           *)
(***************************************************************************)
Lit_conf == <<"/", "e", "t", "c">>

\* address of the k-th configured node
Addr(k) == [host |-> k]

ClusterOf(n) == [Name |-> "prod", Nodes |-> [k \in 1..n |-> Addr(k)]]

\* timeout (seconds) and retries of the configuration file: absent, which
\* viper.Unmarshal leaves at zero, or the values the README shows
ClientSettings == {[Timeout |-> 0, Retries |-> 0], [Timeout |-> 10, Retries |-> 3]}

Configs ==
    {[SelectedCluster |-> sel, Clusters |-> ("prod" :> ClusterOf(n)),
      Timeout |-> cs.Timeout, Retries |-> cs.Retries] :
        sel \in {"", "prod", "gone"}, n \in 0..MaxNodes, cs \in ClientSettings}

\* line 1504: http.Client{Timeout: config.Timeout seconds}; a zero Timeout
\* means the client never times out
GetClientTimeout == config.Timeout

\* line 1410: http.Client{} leaves Timeout at zero
PostClientTimeout == 0

\* the schema of the specification's scenario: name is required without
\* default, high_water_disk_pct is optional with default 70
AddNamespace(hwRequired) ==
    OperationSchema(
        ("name" :> ParamSchema("string", TRUE, Nil)) @@
        ("high_water_disk_pct" :> ParamSchema("int", hwRequired, Default70)),
        ("config_path" :> ParamSchema("string", TRUE, GoString(Lit_conf))))

RemoveNamespace ==
    OperationSchema(("name" :> ParamSchema("string", TRUE, Nil)), EmptyMap)

Aerospike(hwRequired) ==
    OperatorSchema("aerospike",
        ("add_namespace" :> AddNamespace(hwRequired)) @@ ("remove_namespace" :> RemoveNamespace))

\* what a node may answer to GET /api/operator/schema/{operatorName}
SchemaResponses ==
    {APIResponse(TRUE, [j |-> "object", v |-> Aerospike(FALSE)], ""),
     APIResponse(TRUE, [j |-> "object", v |-> Aerospike(TRUE)], ""),
     APIResponse(TRUE, [j |-> "string"], ""),
     APIResponse(FALSE, JNull, "operator not found")}

\* what a node may answer to POST /api/operator/trigger/{operatorName}
TriggerResponses ==
    {APIResponse(TRUE, [j |-> "object", v |-> ("job_id" :> "123")], ""),
     APIResponse(TRUE, [j |-> "object", v |-> EmptyMap], ""),
     APIResponse(TRUE, JNull, ""),
     APIResponse(FALSE, JNull, "rejected"),
     APIResponse(FALSE, [j |-> "object", v |-> ("job_id" :> "123")], "rejected")}

OperatorNames == {"aerospike"}
OperationNames == {"add_namespace", "drop_namespace"}

ParamsFlags ==
    {EmptyMap,
     ("high_water_disk_pct" :> Lit_40),
     ("name" :> Lit_ns1),
     ("name" :> Lit_ns1) @@ ("high_water_disk_pct" :> Lit_55),
     ("name" :> Lit_ns1) @@ ("high_water_disk_pct" :> Lit_abc),
     ("name" :> Lit_ns1) @@ ("bogus" :> Lit_abc)}

ConfigFlags ==
    {EmptyMap, ("config_path" :> Lit_abc), ("bogus" :> Lit_abc)}

TargetNodesFlags == {<<>>, <<"node2", "node1">>}

(***************************************************************************)
(* Spec: one run of triggerOperator                                        *)
(***************************************************************************)
Printed(line, detail) == [line |-> line, detail |-> detail]

TInit ==
    /\ VIdle
    /\ CIdle
    /\ LIdle
    /\ KIdle
    /\ UIdle
    /\ pc = "start"
    /\ config \in Configs
    /\ args = EmptyMap
    /\ flags = EmptyMap
    /\ cluster = Nil
    /\ tried = <<>>
    /\ lastErr = NoErr
    /\ fetched = Nil
    /\ schema = Nil
    /\ validated = EmptyMap
    /\ posts = <<>>
    /\ postRes = Nil
    /\ out = <<>>

\* lines 1349-1357: arguments and getSelectedCluster
SelectCluster ==
    /\ pc = "start"
    /\ \E operatorName \in OperatorNames, operationName \in OperationNames :
           args' = [operatorName |-> operatorName, operationName |-> operationName]
    /\ LET sel == getSelectedCluster(config) IN
       IF sel.err /= NoErr
       THEN /\ out' = Append(out, Printed("Error:", sel.err))
            /\ pc' = "done"
            /\ UNCHANGED cluster
       ELSE /\ cluster' = sel.cluster
            /\ pc' = "fetch"
            /\ UNCHANGED out
    /\ UNCHANGED <<config, flags, tried, lastErr, fetched, schema, validated, posts, postRes>>
    /\ UNCHANGED fvars

\* nodes fetchFromAPI's range has already visited
Visited == {tried[i].node : i \in DOMAIN tried}

GetTransportError_retry ==
    /\ pc = "fetch"
    /\ \E k \in DOMAIN cluster.Nodes :
         LET err == [kind |-> "transport", addr |-> cluster.Nodes[k]] IN
         /\ Cardinality({i \in DOMAIN tried : tried[i].node = k}) <= config.Retries
         /\ \A i \in DOMAIN tried : tried[i].node = k => tried[i].err /= NoErr
         /\ tried' = Append(tried, [node |-> k, addr |-> cluster.Nodes[k],
                                    timeout |-> GetClientTimeout, err |-> err])
         /\ lastErr' = err
    /\ UNCHANGED <<pc, config, args, flags, cluster, fetched, schema, validated, posts, postRes, out>>
    /\ UNCHANGED fvars

\* fetchFromAPI, one iteration: client.Get fails (unreachable or timed out)
GetTransportError ==
    /\ pc = "fetch"
    /\ \E k \in DOMAIN cluster.Nodes \ Visited :
         LET err == [kind |-> "transport", addr |-> cluster.Nodes[k]] IN
         /\ tried' = Append(tried, [node |-> k, addr |-> cluster.Nodes[k], timeout |-> GetClientTimeout, err |-> err])
         /\ lastErr' = err
    /\ UNCHANGED <<pc, config, args, flags, cluster, fetched, schema, validated, posts, postRes, out>>
    /\ UNCHANGED fvars

\* fetchFromAPI, one iteration: the body does not unmarshal into APIResponse
\* (addr tags the error with the body it came from)
GetUndecodable ==
    /\ pc = "fetch"
    /\ \E k \in DOMAIN cluster.Nodes \ Visited :
         LET err == [kind |-> "json_syntax", addr |-> cluster.Nodes[k]] IN
         /\ tried' = Append(tried, [node |-> k, addr |-> cluster.Nodes[k], timeout |-> GetClientTimeout, err |-> err])
         /\ lastErr' = err
    /\ UNCHANGED <<pc, config, args, flags, cluster, fetched, schema, validated, posts, postRes, out>>
    /\ UNCHANGED fvars

\* line 1518: return &apiResp, nil
ReturnResponse_surfaceEarlier(r) ==
    IF lastErr /= NoErr THEN [resp |-> Nil, err |-> lastErr] ELSE [resp |-> r, err |-> NoErr]

ReturnResponse_failOnUnsuccess(r) ==
    IF r.Success THEN [resp |-> r, err |-> NoErr]
    ELSE [resp |-> Nil, err |-> [kind |-> "server", error |-> r.Error]]

ReturnResponse(r) == [resp |-> r, err |-> NoErr]

\* fetchFromAPI, one iteration: the body decodes; return &apiResp, nil
GetResponse ==
    /\ pc = "fetch"
    /\ \E k \in DOMAIN cluster.Nodes \ Visited, r \in SchemaResponses :
         /\ tried' = Append(tried, [node |-> k, addr |-> cluster.Nodes[k], timeout |-> GetClientTimeout, err |-> NoErr, resp |-> r])
         /\ fetched' = ReturnResponse(r)
    /\ pc' = "fetched"
    /\ UNCHANGED <<config, args, flags, cluster, lastErr, schema, validated, posts, postRes, out>>
    /\ UNCHANGED fvars

FetchExhausted_wrapFirst ==
    /\ pc = "fetch"
    /\ DOMAIN cluster.Nodes \ Visited = {}
    /\ fetched' = [resp |-> Nil,
                   err |-> [kind |-> "fetch_from_any_node",
                            cause |-> IF tried = <<>> THEN NoErr ELSE tried[1].err]]
    /\ pc' = "fetched"
    /\ UNCHANGED <<config, args, flags, cluster, tried, lastErr, schema, validated, posts, postRes, out>>
    /\ UNCHANGED fvars

\* fetchFromAPI, after the loop: every node was visited and none returned
FetchExhausted ==
    /\ pc = "fetch"
    /\ DOMAIN cluster.Nodes \ Visited = {}
    /\ fetched' = [resp |-> Nil, err |-> [kind |-> "fetch_from_any_node", cause |-> lastErr]]
    /\ pc' = "fetched"
    /\ UNCHANGED <<config, args, flags, cluster, tried, lastErr, schema, validated, posts, postRes, out>>
    /\ UNCHANGED fvars

\* lines 1359-1363: the schema as triggerOperator gets it
FetchedSchema == fetchOperatorSchema(fetched)

\* lines 1365-1366
OperationExists ==
    /\ FetchedSchema.err = NoErr
    /\ args.operationName \in DOMAIN FetchedSchema.schema.Operations

opSchema == FetchedSchema.schema.Operations[args.operationName]

\* lines 1404-1408: the first address the range over cluster.Nodes yields,
\* "" when there is none
FirstAddr(c, order) == IF order = <<>> THEN [host |-> 0] ELSE c.Nodes[order[1]]

\* lines 1359-1363: fetchOperatorSchema failed
SchemaError ==
    /\ pc = "fetched"
    /\ FetchedSchema.err /= NoErr
    /\ schema' = FetchedSchema
    /\ out' = Append(out, Printed("Error fetching operator schema:", FetchedSchema.err))
    /\ pc' = "done"
    /\ UNCHANGED <<config, args, flags, cluster, tried, lastErr, fetched, validated, posts, postRes>>
    /\ UNCHANGED fvars

\* lines 1369-1371: the operation names in the order the range prints them
ListedOperations_firstOnly(operations) == {<<o>> : o \in DOMAIN operations}

ListedOperations(operations) == Orders(DOMAIN operations)

\* lines 1365-1373: the operation is not in schema.Operations
OperationNotFound ==
    /\ pc = "fetched"
    /\ FetchedSchema.err = NoErr
    /\ ~OperationExists
    /\ schema' = FetchedSchema
    /\ \E order \in ListedOperations(FetchedSchema.schema.Operations) :
           out' = out \o <<Printed("Operation not found for operator", args),
                           Printed("Available operations:", order)>>
    /\ pc' = "done"
    /\ UNCHANGED <<config, args, flags, cluster, tried, lastErr, fetched, validated, posts, postRes>>
    /\ UNCHANGED fvars

\* required parameters as lines 1382-1386 list them
RequiredNames(sch) == {n \in DOMAIN sch : sch[n].Required}

\* lines 1379 and 1391: the handler goes on only when neither validation
\* returned an error
Proceeds_ignoreConfigError(vp, vc) == vp.err = NoErr

Proceeds(vp, vc) == vp.err = NoErr /\ vc.err = NoErr

\* lines 1375-1388: params fail validation
ParamsInvalid ==
    /\ pc = "fetched"
    /\ OperationExists
    /\ schema' = FetchedSchema
    /\ \E p \in ParamsFlags, c \in ConfigFlags :
         \E vp \in ValidateOutcomes(p, opSchema.Parameters) :
           /\ vp.err /= NoErr
           /\ flags' = [params |-> p, config |-> c]
           /\ validated' = [params |-> vp]
           /\ \E order \in Orders(RequiredNames(opSchema.Parameters)) :
                  out' = out \o <<Printed("Parameter validation error:", vp.err),
                                  Printed("Required parameters:", order)>>
    /\ pc' = "done"
    /\ UNCHANGED <<config, args, cluster, tried, lastErr, fetched, posts, postRes>>
    /\ UNCHANGED fvars

\* lines 1375-1394: params validate, config fails validation
ConfigInvalid ==
    /\ pc = "fetched"
    /\ OperationExists
    /\ schema' = FetchedSchema
    /\ \E p \in ParamsFlags, c \in ConfigFlags :
         \E vp \in ValidateOutcomes(p, opSchema.Parameters),
            vc \in ValidateOutcomes(c, opSchema.Config) :
           /\ vp.err = NoErr
           /\ ~Proceeds(vp, vc)
           /\ flags' = [params |-> p, config |-> c]
           /\ validated' = [params |-> vp, config |-> vc]
           /\ out' = Append(out, Printed("Config validation error:", vc.err))
    /\ pc' = "done"
    /\ UNCHANGED <<config, args, cluster, tried, lastErr, fetched, posts, postRes>>
    /\ UNCHANGED fvars

\* lines 1375-1426: both namespaces validate; build the payload, take the
\* first node the range yields and send the POST
SendPost ==
    /\ pc = "fetched"
    /\ OperationExists
    /\ schema' = FetchedSchema
    /\ \E p \in ParamsFlags, c \in ConfigFlags, par \in BOOLEAN, targets \in TargetNodesFlags :
         \E vp \in ValidateOutcomes(p, opSchema.Parameters),
            vc \in ValidateOutcomes(c, opSchema.Config),
            order \in Orders(DOMAIN cluster.Nodes) :
           /\ Proceeds(vp, vc)
           /\ flags' = [params |-> p, config |-> c, parallel |-> par, targetNodes |-> targets]
           /\ validated' = [params |-> vp, config |-> vc]
           /\ posts' = Append(posts,
                  [addr |-> FirstAddr(cluster, order),
                   timeout |-> PostClientTimeout,
                   operator |-> args.operatorName,
                   body |-> MarshalPayload(
                       OperatorPayload(args.operationName, vp.m, vc.m, par, targets))])
    /\ pc' = "posting"
    /\ UNCHANGED <<config, args, cluster, tried, lastErr, fetched, postRes, out>>
    /\ UNCHANGED fvars

PostTransportError_retryNext ==
    /\ pc = "posting"
    /\ \E k \in DOMAIN cluster.Nodes :
         /\ \A i \in DOMAIN posts : posts[i].addr /= cluster.Nodes[k]
         /\ posts' = Append(posts, [posts[Len(posts)] EXCEPT !.addr = cluster.Nodes[k]])
    /\ UNCHANGED <<pc, config, args, flags, cluster, tried, lastErr, fetched, schema, validated, postRes, out>>
    /\ UNCHANGED fvars

\* lines 1426-1430: client.Do fails
PostTransportError ==
    /\ pc = "posting"
    /\ LET err == [kind |-> "transport", addr |-> posts[Len(posts)].addr] IN
       /\ postRes' = [resp |-> Nil, err |-> err]
       /\ out' = Append(out, Printed("Error sending request:", err))
    /\ pc' = "done"
    /\ UNCHANGED <<config, args, flags, cluster, tried, lastErr, fetched, schema, validated, posts>>
    /\ UNCHANGED fvars

\* lines 1433-1438: the body does not unmarshal into APIResponse
PostUndecodable ==
    /\ pc = "posting"
    /\ LET err == [kind |-> "json_syntax", addr |-> posts[Len(posts)].addr] IN
       /\ postRes' = [resp |-> Nil, err |-> err]
       /\ out' = Append(out, Printed("Error decoding response:", err))
    /\ pc' = "done"
    /\ UNCHANGED <<config, args, flags, cluster, tried, lastErr, fetched, schema, validated, posts>>
    /\ UNCHANGED fvars

Interpret_jobIdRegardless(r) ==
    (IF ~r.Success
     THEN <<Printed("Failed to trigger operation:", r.Error)>>
     ELSE <<Printed("Operation triggered successfully", Nil)>>) \o
    (IF r.Data.j = "object" /\ "job_id" \in DOMAIN r.Data.v
     THEN <<Printed("Job ID:", r.Data.v["job_id"])>>
     ELSE <<>>)

\* lines 1440-1450: what is printed for a decoded response
Interpret(r) ==
    IF ~r.Success
    THEN <<Printed("Failed to trigger operation:", r.Error)>>
    ELSE <<Printed("Operation triggered successfully", Nil)>> \o
         (IF r.Data.j = "object" /\ "job_id" \in DOMAIN r.Data.v
          THEN <<Printed("Job ID:", r.Data.v["job_id"])>>
          ELSE <<>>)

\* lines 1433-1450: the body decodes
PostResponse ==
    /\ pc = "posting"
    /\ \E r \in TriggerResponses :
         /\ postRes' = [resp |-> r, err |-> NoErr]
         /\ out' = out \o Interpret(r)
    /\ pc' = "done"
    /\ UNCHANGED <<config, args, flags, cluster, tried, lastErr, fetched, schema, validated, posts>>
    /\ UNCHANGED fvars

Next ==
    \/ SelectCluster
    \/ GetTransportError
    \/ GetUndecodable
    \/ GetResponse
    \/ FetchExhausted
    \/ SchemaError
    \/ OperationNotFound
    \/ ParamsInvalid
    \/ ConfigInvalid
    \/ SendPost
    \/ PostTransportError
    \/ PostUndecodable
    \/ PostResponse

Spec == TInit /\ [][Next]_vars

(***************************************************************************)
(* Properties of the trigger run                                           *)
(***************************************************************************)
\* the operation's schema once the handler has looked it up
LookedUp == schema /= Nil /\ schema.err = NoErr
                /\ args.operationName \in DOMAIN schema.schema.Operations

UsedSchema == schema.schema.Operations[args.operationName]

\* an input no iteration order can validate
Invalid(params, sch) ==
    \/ MissingRequired(params, sch) /= {}
    \/ UnknownKeys(params, sch) /= {}
    \/ Unconvertible(params, sch) /= {}

\* a validation the handler ran returned an error
ValidationFailed ==
    \/ "params" \in DOMAIN validated /\ validated.params.err /= NoErr
    \/ "config" \in DOMAIN validated /\ validated.config.err /= NoErr

\* C4: when validation of the params namespace or of the config namespace
\* fails, the run ends without ever sending a POST.
C4_NoPostAfterValidationFailure ==
    /\ ValidationFailed => (posts = <<>> /\ pc = "done" /\ postRes = Nil)
    /\ (LookedUp /\ "params" \in DOMAIN flags) =>
          ((Invalid(flags.params, UsedSchema.Parameters) \/ Invalid(flags.config, UsedSchema.Config))
              => (ValidationFailed /\ posts = <<>>))

C4_Witness ==
    /\ pc = "done"
    /\ "params" \in DOMAIN flags
    /\ "params" \in DOMAIN validated
    /\ flags.params = ("high_water_disk_pct" :> Lit_40)
    /\ validated.params = Fail([kind |-> "missing", name |-> "name"])
    /\ posts = <<>>

C4_WitnessConfig ==
    /\ pc = "done"
    /\ "config" \in DOMAIN validated
    /\ validated.params.err = NoErr
    /\ validated.config = Fail([kind |-> "unknown", name |-> "bogus"])
    /\ posts = <<>>

\* the scenario of C5: name:string required without default,
\* high_water_disk_pct:int optional with default 70, params={name:"ns1"}
C5_Scenario ==
    /\ LookedUp
    /\ schema.schema = Aerospike(FALSE)
    /\ args.operationName = "add_namespace"
    /\ "params" \in DOMAIN flags
    /\ flags.params = ("name" :> Lit_ns1)

C5_Expected ==
    ("name" :> GoString(Lit_ns1)) @@ ("high_water_disk_pct" :> Default70)

\* C5: in the scenario the validated params are {name:"ns1",
\* high_water_disk_pct:70}, exactly that mapping is the params of the POSTed
\* payload, and a response {success:true, data:{job_id:"123"}} prints job id
\* "123".
C5_EndToEnd ==
    (C5_Scenario /\ pc \in {"posting", "done"} /\ "config" \in DOMAIN validated
                 /\ validated.config.err = NoErr) =>
        /\ validated.params = Ok(C5_Expected)
        /\ Len(posts) = 1
        /\ posts[1].body.params = MarshalMap(C5_Expected)
        /\ (postRes /= Nil /\ postRes.err = NoErr /\ postRes.resp.Success
              /\ postRes.resp.Data.j = "object" /\ "job_id" \in DOMAIN postRes.resp.Data.v)
            => out[Len(out)] = Printed("Job ID:", postRes.resp.Data.v["job_id"])

\* positions after fetchFromAPI has returned
FetchReturned == fetched /= Nil

Failed(i) == tried[i].err /= NoErr

\* C6: when every node tried before N failed and N returned a decodable
\* response, fetchFromAPI returns N's response and a nil error, and no node
\* is tried after N.
C6_ReadFallback ==
    \A i \in DOMAIN tried :
        ~Failed(i) =>
            /\ i = Len(tried)
            /\ \A j \in 1..(i - 1) : Failed(j)
            /\ FetchReturned
            /\ fetched = [resp |-> tried[i].resp, err |-> NoErr]

C6_Witness ==
    /\ Len(tried) = 3
    /\ tried[1].err.kind = "transport"
    /\ tried[2].err.kind = "transport"
    /\ ~Failed(3)
    /\ tried[3].resp.Success
    /\ fetched = [resp |-> tried[3].resp, err |-> NoErr]

\* C7: fetchFromAPI returns an error exactly when every configured node was
\* tried and failed; it then returns no response and one error that wraps
\* the failure of the last node tried.
C7_AllNodesFail ==
    FetchReturned =>
        /\ fetched.err /= NoErr <=>
              (Visited = DOMAIN cluster.Nodes /\ \A i \in DOMAIN tried : Failed(i))
        /\ fetched.err /= NoErr =>
              /\ fetched.resp = Nil
              /\ fetched.err.kind = "fetch_from_any_node"
              /\ Len(tried) = Cardinality(DOMAIN cluster.Nodes)
              /\ tried /= <<>> => fetched.err.cause = tried[Len(tried)].err

C7_Witness ==
    /\ FetchReturned
    /\ Len(tried) = 3
    /\ tried[1].err.kind = "transport"
    /\ tried[3].err.kind = "json_syntax"
    /\ fetched.resp = Nil
    /\ fetched.err = [kind |-> "fetch_from_any_node", cause |-> tried[3].err]

\* C8: a run sends at most one POST, to one configured node; when that POST
\* fails at transport level the run is over with an error printed and no
\* further POST.
C8_SinglePost ==
    /\ Len(posts) <= 1
    /\ posts /= <<>> => (cluster /= Nil /\ posts[1].addr \in Range(cluster.Nodes))
    /\ (postRes /= Nil /\ postRes.err.kind = "transport") =>
          /\ pc = "done"
          /\ Len(posts) = 1
          /\ out = <<Printed("Error sending request:", postRes.err)>>

C8_Witness ==
    /\ pc = "done"
    /\ cluster /= Nil
    /\ Cardinality(DOMAIN cluster.Nodes) = 3
    /\ Len(posts) = 1
    /\ postRes /= Nil
    /\ postRes.err.kind = "transport"

\* C9: when the operation name is not among the fetched schema's operations
\* the run ends with the operation-not-found message followed by the list of
\* all operation names of the operator and only them, having validated
\* nothing and sent no POST.
C9_UnknownOperation ==
    (schema /= Nil /\ schema.err = NoErr
        /\ args.operationName \notin DOMAIN schema.schema.Operations) =>
        /\ pc = "done"
        /\ Len(out) = 2
        /\ out[1] = Printed("Operation not found for operator", args)
        /\ out[2].line = "Available operations:"
        /\ Range(out[2].detail) = DOMAIN schema.schema.Operations
        /\ Len(out[2].detail) = Cardinality(DOMAIN schema.schema.Operations)
        /\ validated = EmptyMap
        /\ flags = EmptyMap
        /\ posts = <<>>

C9_Witness ==
    /\ pc = "done"
    /\ schema /= Nil
    /\ schema.err = NoErr
    /\ schema.schema = Aerospike(FALSE)
    /\ args.operationName = "drop_namespace"
    /\ Range(out[2].detail) = {"add_namespace", "remove_namespace"}

\* C10: when the node answers the schema request with success=false and an
\* error, the run ends by printing that server error, without looking the
\* operation up and without a POST.
C10_ServerFailureSurfaced ==
    (FetchReturned /\ fetched.err = NoErr /\ ~fetched.resp.Success /\ pc = "done") =>
        /\ tried[Len(tried)].resp = fetched.resp
        /\ out = <<Printed("Error fetching operator schema:",
                           [kind |-> "server", error |-> fetched.resp.Error])>>
        /\ \A i \in DOMAIN out : out[i].line /= "Operation not found for operator"
        /\ posts = <<>>

\* the POST came back with a body that decoded into an APIResponse
PostDecoded == postRes /= Nil /\ postRes.err = NoErr

HasJobId(r) == r.Data.j = "object" /\ "job_id" \in DOMAIN r.Data.v

JobIdLines == {i \in DOMAIN out : out[i].line = "Job ID:"}

\* C11: after a decodable POST response, success=false prints the failure
\* with the server's error string and no job id; success=true prints success
\* and prints the job id exactly when the data is a mapping with job_id.
C11_ResponseInterpreted ==
    PostDecoded =>
        /\ pc = "done"
        /\ ~postRes.resp.Success =>
              /\ Len(out) = 1
              /\ out[1].line = "Failed to trigger operation:"
              /\ out[1].detail = postRes.resp.Error
              /\ JobIdLines = {}
        /\ postRes.resp.Success =>
              /\ out[1].line = "Operation triggered successfully"
              /\ JobIdLines /= {} <=> HasJobId(postRes.resp)
              /\ \A i \in JobIdLines : out[i].detail = postRes.resp.Data.v["job_id"]
              /\ \A i \in DOMAIN out : out[i].line /= "Failed to trigger operation:"

C11_Witness ==
    /\ PostDecoded
    /\ ~postRes.resp.Success
    /\ HasJobId(postRes.resp)
    /\ out = <<Printed("Failed to trigger operation:", "rejected")>>

C11_WitnessJobId ==
    /\ PostDecoded
    /\ postRes.resp.Success
    /\ HasJobId(postRes.resp)
    /\ Len(out) = 2
    /\ out[2].line = "Job ID:"
    /\ out[2].detail = "123"

(***************************************************************************)
(* Further properties of validateAndConvertParams (SpecV)                  *)
(***************************************************************************)
\* what the literals of RawValues are as typed values
Converted(raw, type) ==
    CASE type = "string" -> GoString(raw)
      [] type = "int" /\ raw = Lit_55 -> GoInt(55)
      [] type = "float" /\ raw = Lit_55 -> GoFloat(FALSE, 55, 0)
      [] OTHER -> Nil

\* C12: in a successful result every supplied name is mapped to its
\* converted supplied value, never to the schema default, whether the entry
\* is required or not.
C12_SuppliedOverridesDefault ==
    (vpc = "ret" /\ ~vOut.nil) =>
        \A n \in DOMAIN vParams :
            /\ n \in DOMAIN vOut.m
            /\ vOut.m[n] = Converted(vParams[n], vSchema[n].Type)
            /\ vOut.m[n] /= vSchema[n].Default

C12_Witness ==
    /\ vpc = "ret"
    /\ vSchema = ("high_water_disk_pct" :> ParamSchema("int", FALSE, Default70))
    /\ vParams = ("high_water_disk_pct" :> Lit_55)
    /\ vOut = Ok(("high_water_disk_pct" :> GoInt(55)))

C12_WitnessRequired ==
    /\ vpc = "ret"
    /\ vSchema = ("high_water_disk_pct" :> ParamSchema("int", TRUE, Default70))
    /\ vParams = ("high_water_disk_pct" :> Lit_55)
    /\ vOut = Ok(("high_water_disk_pct" :> GoInt(55)))

\* optional entries without default that were not supplied
OptionalAbsent(params, sch) ==
    {n \in DOMAIN sch : ~sch[n].Required /\ sch[n].Default = Nil /\ n \notin DOMAIN params}

\* C13: an optional entry without default that is absent from supplied is
\* not a key of the result, is never the parameter an error names, and by
\* itself does not make validation fail.
C13_OptionalAbsentOmitted ==
    vpc = "ret" =>
        \A n \in OptionalAbsent(vParams, vSchema) :
            /\ ~vOut.nil => n \notin DOMAIN vOut.m
            /\ vOut.nil => vOut.err.name /= n
            /\ ~Invalid(vParams, vSchema) => ~vOut.nil

C13_Witness ==
    /\ vpc = "ret"
    /\ OptionalAbsent(vParams, vSchema) = {"high_water_disk_pct"}
    /\ vParams = ("name" :> Lit_ns1)
    /\ vOut = Ok(("name" :> GoString(Lit_ns1)))

\* C17: when a required entry without default is absent, the error is the
\* missing-required error even though supplied also holds an unknown key or
\* a value that does not convert.
C17_RequiredPassFirst ==
    (vpc = "ret" /\ MissingRequired(vParams, vSchema) /= {}
        /\ (UnknownKeys(vParams, vSchema) /= {} \/ Unconvertible(vParams, vSchema) /= {})) =>
        /\ vOut.nil
        /\ vOut.err.kind = "missing"
        /\ vOut.err.name \in MissingRequired(vParams, vSchema)
        /\ vOut.err.name \notin DOMAIN vParams

C17_Witness ==
    /\ vpc = "ret"
    /\ MissingRequired(vParams, vSchema) = {"name"}
    /\ UnknownKeys(vParams, vSchema) = {"bogus"}
    /\ Unconvertible(vParams, vSchema) = {"high_water_disk_pct"}
    /\ vOut = Fail([kind |-> "missing", name |-> "name"])

\* C18: for a fixed (supplied, schema) pair every run returns the same
\* result and the same error naming the same parameter.
C18_Deterministic ==
    vpc = "ret" => ValidateOutcomes(vParams, vSchema) = {vOut}

(***************************************************************************)
(* SpecC: convertValue on bounded inputs                                   *)
(***************************************************************************)
Lit_42 == <<"4", "2">>
Lit_neg7 == <<"-", "7">>
Lit_4p5 == <<"4", ".", "5">>
Lit_true == <<"t", "r", "u", "e">>
Lit_false == <<"f", "a", "l", "s", "e">>
Lit_yes == <<"y", "e", "s">>
Lit_tRuE == <<"t", "R", "u", "E">>

ConvValues ==
    {<<>>, <<"1">>, <<"0">>, <<"T">>, Lit_42, Lit_55, Lit_neg7, Lit_4p5, Lit_abc, Lit_ns1,
     Lit_true, Lit_false, Lit_yes, Lit_tRuE}

ConvTypes == TypeNames \cup {"", "String", "integer"}

SupportedTypes == {"string", "int", "bool", "float"}

CInit ==
    /\ cpc = "call"
    /\ cValue \in ConvValues
    /\ cType \in ConvTypes
    /\ cOut = [val |-> Nil, err |-> NoErr]
    /\ VIdle
    /\ TIdle
    /\ LIdle
    /\ KIdle
    /\ UIdle

Convert ==
    /\ cpc = "call"
    /\ cOut' = convertValue(cValue, cType)
    /\ cpc' = "ret"
    /\ UNCHANGED <<cValue, cType>>
    /\ UNCHANGED <<vvars, tvars, lvars, kvars, uvars>>

CNext == Convert

SpecC == CInit /\ [][CNext]_vars

\* the integers the literals of ConvValues denote
IntLiterals == (<<"1">> :> 1) @@ (<<"0">> :> 0) @@ (Lit_42 :> 42) @@ (Lit_55 :> 55)
                   @@ (Lit_neg7 :> 0 - 7)

\* the booleans the literals of ConvValues denote
BoolLiterals == (<<"1">> :> TRUE) @@ (<<"T">> :> TRUE) @@ (Lit_true :> TRUE)
                    @@ (<<"0">> :> FALSE) @@ (Lit_false :> FALSE)

\* C16: type string returns the input unchanged; type int gives the integer
\* a decimal literal denotes ("42" gives 42) and fails on anything else
\* ("abc"); type bool gives the boolean of a boolean literal ("true",
\* "false") and fails on anything else ("yes"); a type outside
\* {string,int,bool,float} fails with the unsupported-type error for every
\* input.
C16_ConvertValue ==
    cpc = "ret" =>
        /\ cType = "string" => cOut = [val |-> GoString(cValue), err |-> NoErr]
        /\ cType = "int" =>
              IF cValue \in DOMAIN IntLiterals
              THEN cOut = [val |-> GoInt(IntLiterals[cValue]), err |-> NoErr]
              ELSE cOut.err.kind = "syntax"
        /\ cType = "bool" =>
              IF cValue \in DOMAIN BoolLiterals
              THEN cOut = [val |-> GoBool(BoolLiterals[cValue]), err |-> NoErr]
              ELSE cOut.err.kind = "syntax"
        /\ cType \notin SupportedTypes =>
              cOut = [val |-> Nil, err |-> [kind |-> "unsupported", type |-> cType]]

C16_Witness ==
    /\ cpc = "ret"
    /\ cType = "int"
    /\ cValue = Lit_42
    /\ cOut = [val |-> GoInt(42), err |-> NoErr]

C16_WitnessUnsupported ==
    /\ cpc = "ret"
    /\ cType = "list"
    /\ cValue = Lit_yes
    /\ cOut.err.kind = "unsupported"

(***************************************************************************)
(* Timeouts, directives, node choice, retries                              *)
(***************************************************************************)
\* steps the handler takes without waiting for the network
LocalStep ==
    \/ SelectCluster
    \/ FetchExhausted
    \/ SchemaError
    \/ OperationNotFound
    \/ ParamsInvalid
    \/ ConfigInvalid
    \/ SendPost

\* a pending call is ended by its client only when the client has a timeout
GetTimesOut == GetClientTimeout > 0 /\ GetTransportError

PostTimesOut == PostClientTimeout > 0 /\ PostTransportError

\* the run under nodes that may never answer: only the handler's own steps
\* and the timeouts of its clients are bound to happen
SpecLive ==
    /\ TInit
    /\ [][Next]_vars
    /\ WF_vars(LocalStep)
    /\ WF_vars(GetTimesOut)
    /\ WF_vars(PostTimesOut)

\* every run ends
Terminates == <>(pc = "done")

\* C14: every GET and the POST are made by a client with a finite timeout
\* (a zero Timeout of http.Client is no timeout), so that a call to a node
\* that never answers ends with a transport error.
C14_EveryCallBounded ==
    /\ \A i \in DOMAIN tried : tried[i].timeout > 0
    /\ \A i \in DOMAIN posts : posts[i].timeout > 0

\* C15: the body of the POST carries the caller's parallel flag and the
\* caller's node list, same elements in the same order; an empty list is
\* sent as no target_nodes at all.
C15_DirectivesForwarded ==
    posts /= <<>> =>
        /\ "parallel" \in DOMAIN flags
        /\ posts[1].body.parallel = flags.parallel
        /\ IF flags.targetNodes = <<>>
           THEN posts[1].body.target_nodes = Omitted
           ELSE posts[1].body.target_nodes = [j |-> "array", v |-> flags.targetNodes]
        /\ posts[1].body.operation = args.operationName

C15_Witness ==
    /\ posts /= <<>>
    /\ ~flags.parallel
    /\ flags.targetNodes = <<"node2", "node1">>
    /\ posts[1].body.parallel = FALSE
    /\ posts[1].body.target_nodes = [j |-> "array", v |-> <<"node2", "node1">>]

C15_WitnessEmpty ==
    /\ posts /= <<>>
    /\ flags.targetNodes = <<>>
    /\ Cardinality(DOMAIN cluster.Nodes) > 1
    /\ posts[1].body.target_nodes = Omitted

\* C19: the POST is not sent to an unreachable node while another node is
\* reachable: when the POST fails at transport level, no other node has
\* answered a GET of this run.
C19_PostToReachableNode ==
    (postRes /= Nil /\ postRes.err.kind = "transport") =>
        \A i \in DOMAIN tried : ~Failed(i) => tried[i].addr = posts[1].addr

C21_UnconvertibleAlwaysTypeError ==
    (vpc = "ret" /\ Unconvertible(vParams, vSchema) /= {}) =>
        /\ vOut.nil
        /\ vOut.err.kind = "param"
        /\ vOut.err.name \in Unconvertible(vParams, vSchema)

\* C21 amended: a supplied key of the schema whose value does not convert
\* always makes validation return nil and an error, never a partly converted
\* mapping; the error is missing-required when a required entry without
\* default is absent, otherwise the unknown-parameter error of another key
\* or the error naming an unconvertible key and wrapping the converter's
\* error for that key's value, and it is the latter whenever nothing else is
\* wrong with the input.
C21_UnconvertibleNeverAccepted ==
    (vpc = "ret" /\ Unconvertible(vParams, vSchema) /= {}) =>
        /\ vOut.nil
        /\ vOut.m = EmptyMap
        /\ vOut.err.kind \in {"missing", "unknown", "param"}
        /\ vOut.err.kind = "missing" <=> MissingRequired(vParams, vSchema) /= {}
        /\ vOut.err.kind = "param" =>
              /\ vOut.err.name \in Unconvertible(vParams, vSchema)
              /\ vOut.err.cause.kind \in {"syntax", "unsupported"}
              /\ vOut.err.cause.kind = "unsupported" <=>
                    vSchema[vOut.err.name].Type \notin SupportedTypes
              /\ vOut.err.cause.kind = "syntax" =>
                    vOut.err.cause.input = vParams[vOut.err.name]
        /\ (MissingRequired(vParams, vSchema) = {} /\ UnknownKeys(vParams, vSchema) = {})
               => vOut.err.kind = "param"

C21_Witness ==
    /\ vpc = "ret"
    /\ vSchema = ("high_water_disk_pct" :> ParamSchema("int", FALSE, Default70))
                    @@ ("name" :> ParamSchema("string", TRUE, Nil))
    /\ vParams = ("high_water_disk_pct" :> Lit_abc) @@ ("name" :> Lit_ns1)
    /\ vOut = Fail([kind |-> "param", name |-> "high_water_disk_pct",
                    cause |-> SyntaxErr("Atoi", Lit_abc)])

C21_WitnessUnsupported ==
    /\ vpc = "ret"
    /\ vOut.nil
    /\ vOut.err.kind = "param"
    /\ vOut.err.cause = [kind |-> "unsupported", type |-> "list"]

\* C25: a successful validation returns a mapping whose keys are schema keys
\* and include every supplied key; a failed one returns nil and an error.
C25_ResultShape ==
    vpc = "ret" =>
        IF vOut.err = NoErr
        THEN /\ ~vOut.nil
             /\ DOMAIN vOut.m \subseteq DOMAIN vSchema
             /\ DOMAIN vParams \subseteq DOMAIN vOut.m
        ELSE /\ vOut.nil
             /\ vOut.m = EmptyMap

C25_Witness ==
    /\ vpc = "ret"
    /\ vOut.err = NoErr
    /\ DOMAIN vSchema = {"name", "high_water_disk_pct"}
    /\ DOMAIN vParams = {"name"}
    /\ DOMAIN vOut.m = {"name", "high_water_disk_pct"}

C25_WitnessFailure ==
    /\ vpc = "ret"
    /\ vOut.err.kind = "param"
    /\ Cardinality(DOMAIN vParams) = 2
    /\ Cardinality(Unconvertible(vParams, vSchema)) = 1
    /\ vOut.nil

(***************************************************************************)
(* Decode failures and unsuccessful responses on the read path (Spec)      *)
(***************************************************************************)
\* C22: in the schema fetcher malformed data from a reachable node gives a
\* decode error, never the aggregated failed-to-fetch-from-any-node error
\* that unreachable nodes give.
C22_DecodeErrorDistinct ==
    (schema /= Nil /\ schema.err /= NoErr) =>
        /\ (FetchReturned /\ tried /= <<>> /\ tried[Len(tried)].err.kind = "json_syntax")
               => schema.err.kind /= "fetch_from_any_node"
        /\ (fetched.err = NoErr) => schema.err.kind = "unmarshal_type"

\* C24: a decodable response with success=false ends fetchFromAPI with that
\* response and a nil error and no further GET; a body that does not decode
\* counts as a failure of that node, after which the next node is tried or,
\* when none is left, the aggregated error is returned.
C24_FirstDecodableResponse ==
    \A i \in DOMAIN tried :
        /\ (~Failed(i) /\ ~tried[i].resp.Success) =>
              /\ i = Len(tried)
              /\ pc /= "fetch"
              /\ fetched = [resp |-> tried[i].resp, err |-> NoErr]
        /\ tried[i].err.kind = "json_syntax" =>
              /\ i < Len(tried) => tried[i + 1].node /= tried[i].node
              /\ (i = Len(tried) /\ pc = "fetch") => lastErr = tried[i].err
              /\ (i = Len(tried) /\ FetchReturned) =>
                    /\ Visited = DOMAIN cluster.Nodes
                    /\ fetched = [resp |-> Nil,
                                  err |-> [kind |-> "fetch_from_any_node", cause |-> tried[i].err]]

C24_Witness ==
    /\ Len(tried) = 2
    /\ Cardinality(DOMAIN cluster.Nodes) = 3
    /\ tried[1].err.kind = "json_syntax"
    /\ ~Failed(2)
    /\ ~tried[2].resp.Success
    /\ fetched = [resp |-> tried[2].resp, err |-> NoErr]

(***************************************************************************)
(* SpecL: the row loops of `nodes` and `operator list`, from the response  *)
(* that fetchFromAPI returned                                              *)
(***************************************************************************)
MaxRows == 2

JString(x) == [j |-> "string", v |-> x]
JObject(m) == [j |-> "object", v |-> m]

\* x.(string) on a map entry: the entry is present and holds a string
IsString(m, f) == f \in DOMAIN m /\ m[f].j = "string"

\* s, _ := m[f].(string): the zero value when the assertion fails
StringOrZero(m, f) == IF IsString(m, f) THEN m[f].v ELSE ""

ZeroTime == "0001-01-01T00:00:00Z"
Stamp == "2024-11-10T16:48:10.5Z"

\* t, _ := time.Parse(time.RFC3339Nano, s): the zero time on a parse error
ParseTime(x) == IF x \in {ZeroTime, Stamp} THEN x ELSE ZeroTime

\* humanize.Time(t): the age of t in words
HumanizeTime(t) == [ago |-> t]

NodeFields == {"id", "address", "last_seen", "state"}
OperatorFields == {"name", "version", "author", "description"}
FieldsOf(cmd) == IF cmd = "nodes" THEN NodeFields ELSE OperatorFields

\* a complete row of the command's response
ObjectOf(cmd) ==
    [f \in FieldsOf(cmd) |->
        JString(CASE f = "id" -> "node1"
                  [] f = "address" -> "10.0.0.1:7946"
                  [] f = "last_seen" -> Stamp
                  [] f = "state" -> "leader"
                  [] f = "name" -> "aerospike"
                  [] f = "version" -> "1.0.0"
                  [] f = "author" -> "ops"
                  [] OTHER -> "namespace management")]

\* the rows a node may send: the complete row, a row that is no object, a
\* row with one entry missing or holding a number, and for `nodes` a row
\* whose last_seen is a string that is no timestamp
RowsOf(cmd) ==
    {JObject(ObjectOf(cmd)), JString("node1")}
      \cup {JObject([g \in FieldsOf(cmd) \ {f} |-> ObjectOf(cmd)[g]]) : f \in FieldsOf(cmd)}
      \cup {JObject([ObjectOf(cmd) EXCEPT ![f] = JNumber(FALSE, 7, 0)]) : f \in FieldsOf(cmd)}
      \cup (IF cmd = "nodes"
            THEN {JObject([ObjectOf(cmd) EXCEPT !["last_seen"] = JString("yesterday")])}
            ELSE {})

\* resp.Data: null, an object, or an array of at most MaxRows rows
ListData(cmd) ==
    {JNull, JObject(EmptyMap)}
      \cup {[j |-> "array", v |-> rows] : rows \in UNION {[1..n -> RowsOf(cmd)] : n \in 0..MaxRows}}

LInit ==
    /\ lpc = "resp"
    /\ lCmd \in {"nodes", "operator list"}
    /\ lData \in ListData(lCmd)
    /\ lIdx = 1
    /\ lTable = <<>>
    /\ lOut = <<>>
    /\ VIdle
    /\ CIdle
    /\ TIdle
    /\ KIdle
    /\ UIdle

\* lines 1058-1062 and 1127-1131: resp.Data.([]interface{})
AssertRows ==
    /\ lpc = "resp"
    /\ IF lData.j = "array"
       THEN /\ lpc' = "loop"
            /\ UNCHANGED lOut
       ELSE /\ lpc' = "done"
            /\ lOut' = Append(lOut, Printed(IF lCmd = "nodes"
                                            THEN "Invalid response format for nodes"
                                            ELSE "Invalid response format", Nil))
    /\ UNCHANGED <<lCmd, lData, lIdx, lTable>>
    /\ UNCHANGED <<vvars, cvars, tvars, kvars, uvars>>

\* lines 1067-1079: one iteration of listNodes' loop
NodeRow ==
    /\ lpc = "loop"
    /\ lCmd = "nodes"
    /\ lIdx <= Len(lData.v)
    /\ LET nodeData == lData.v[lIdx] IN
       IF nodeData.j /= "object"
       THEN /\ lOut' = Append(lOut, Printed("Invalid node data format", Nil))
            /\ lIdx' = lIdx + 1
            /\ UNCHANGED <<lpc, lTable>>
       ELSE IF ~IsString(nodeData.v, "last_seen")
       THEN /\ lpc' = "panic"
            /\ UNCHANGED <<lIdx, lTable, lOut>>
       ELSE /\ lTable' = Append(lTable,
                   <<StringOrZero(nodeData.v, "id"),
                     StringOrZero(nodeData.v, "address"),
                     HumanizeTime(ParseTime(nodeData.v["last_seen"].v)),
                     StringOrZero(nodeData.v, "state")>>)
            /\ lIdx' = lIdx + 1
            /\ UNCHANGED <<lpc, lOut>>
    /\ UNCHANGED <<lCmd, lData>>
    /\ UNCHANGED <<vvars, cvars, tvars, kvars, uvars>>

\* lines 1145-1153: one iteration of listOperators' loop
OperatorRow ==
    /\ lpc = "loop"
    /\ lCmd = "operator list"
    /\ lIdx <= Len(lData.v)
    /\ LET op == lData.v[lIdx] IN
       IF op.j /= "object" \/ \E f \in OperatorFields : ~IsString(op.v, f)
       THEN /\ lpc' = "panic"
            /\ UNCHANGED <<lIdx, lTable>>
       ELSE /\ lTable' = Append(lTable, <<op.v["name"].v, op.v["version"].v,
                                          op.v["author"].v, op.v["description"].v>>)
            /\ lIdx' = lIdx + 1
            /\ UNCHANGED lpc
    /\ UNCHANGED <<lCmd, lData, lOut>>
    /\ UNCHANGED <<vvars, cvars, tvars, kvars, uvars>>

\* lines 1081 and 1155-1158: table.Render() after the loop
Render ==
    /\ lpc = "loop"
    /\ lIdx > Len(lData.v)
    /\ lOut' = Append(lOut, Printed("table", lTable))
    /\ lpc' = "done"
    /\ UNCHANGED <<lCmd, lData, lIdx, lTable>>
    /\ UNCHANGED <<vvars, cvars, tvars, kvars, uvars>>

LNext ==
    \/ AssertRows
    \/ NodeRow
    \/ OperatorRow
    \/ Render

SpecL == LInit /\ [][LNext]_vars

\* a row that is an object whose entries are all present and strings
WellFormed(cmd, row) ==
    row.j = "object" /\ \A f \in FieldsOf(cmd) : IsString(row.v, f)

\* the table lines of the well-formed rows, in order
RECURSIVE WellFormedLines(_, _)
WellFormedLines(cmd, rows) ==
    IF rows = <<>> THEN <<>>
    ELSE LET row == Head(rows)
             line == IF cmd = "nodes"
                     THEN <<row.v["id"].v, row.v["address"].v,
                            HumanizeTime(ParseTime(row.v["last_seen"].v)), row.v["state"].v>>
                     ELSE <<row.v["name"].v, row.v["version"].v,
                            row.v["author"].v, row.v["description"].v>>
         IN IF WellFormed(cmd, row)
            THEN <<line>> \o WellFormedLines(cmd, Tail(rows))
            ELSE WellFormedLines(cmd, Tail(rows))

\* C23: once the rows are being read the command does not abort; it ends
\* having printed one warning for each malformed row and then the table of
\* all well-formed rows.
C23_MalformedRowsSkipped ==
    /\ lpc /= "panic"
    /\ lpc = "done" /\ lData.j = "array" =>
          /\ lOut /= <<>>
          /\ lOut[Len(lOut)] = Printed("table", WellFormedLines(lCmd, lData.v))
          /\ Cardinality({i \in DOMAIN lOut : lOut[i].line /= "table"})
                = Cardinality({i \in DOMAIN lData.v : ~WellFormed(lCmd, lData.v[i])})

(***************************************************************************)
(* SpecK: the cluster commands, by the HTTP requests they send.            *)
(* fetchFromAPI is one step here: the GETs of one call, in range order.    *)
(***************************************************************************)
Call(method, endpoint) == [method |-> method, endpoint |-> endpoint]

\* the API calls a command makes once it has its cluster, as far as each one
\* lets the command go on
CallsOf ==
  [cmd \in {"health", "nodes", "leader", "logs", "metrics", "config view", "config set",
            "operator list", "operator show", "operator trigger"} |->
    CASE cmd = "health" -> {<<Call("GET", "health")>>}
      [] cmd = "nodes" -> {<<Call("GET", "nodes")>>}
      [] cmd = "leader" -> {<<Call("GET", "leader")>>}
      [] cmd = "logs" -> {<<Call("GET", "leader"), Call("GET", "logs")>>,   \* --node absent
                          <<Call("GET", "logs")>>}                          \* --node given
      [] cmd = "metrics" -> {<<Call("GET", "metrics")>>}
      [] cmd = "config view" -> {<<Call("GET", "config")>>}
      [] cmd = "config set" -> {<<Call("POST", "config/set")>>}
      [] cmd = "operator list" -> {<<Call("GET", "operator/list")>>,        \* no argument
                                   <<Call("GET", "operator/schema")>>}      \* list <name>
      [] cmd = "operator show" -> {<<Call("GET", "operator/schema")>>}
      [] OTHER -> {<<Call("GET", "operator/schema"), Call("POST", "operator/trigger")>>}]

KInit ==
    /\ kpc = "start"
    /\ kCmd \in DOMAIN CallsOf
    /\ kConfig \in Configs
    /\ kCalls = <<>>
    /\ kReqs = <<>>
    /\ kOut = <<>>
    /\ VIdle
    /\ CIdle
    /\ TIdle
    /\ LIdle
    /\ UIdle

\* the handler's first statement: getSelectedCluster, and return on its error
KSelectCluster ==
    /\ kpc = "start"
    /\ LET sel == getSelectedCluster(kConfig) IN
       IF sel.err /= NoErr
       THEN /\ kOut' = Append(kOut, Printed("Error:", sel.err))
            /\ kpc' = "done"
            /\ UNCHANGED kCalls
       ELSE /\ kCalls' \in CallsOf[kCmd]
            /\ kpc' = "call"
            /\ UNCHANGED kOut
    /\ UNCHANGED <<kCmd, kConfig, kReqs>>
    /\ UNCHANGED <<vvars, cvars, tvars, lvars, uvars>>

\* the cluster the command works on
KCluster == getSelectedCluster(kConfig).cluster

Request(call, addr) == [method |-> call.method, endpoint |-> call.endpoint, addr |-> addr]

\* fetchFromAPI for the next call: GETs to the first k nodes of the range,
\* of which only the last may have answered with a decodable body; then the
\* command goes on, or stops on what it received
KGet ==
    /\ kpc = "call"
    /\ kCalls /= <<>>
    /\ Head(kCalls).method = "GET"
    /\ \E order \in Orders(DOMAIN KCluster.Nodes), k \in 0..Cardinality(DOMAIN KCluster.Nodes),
          answered \in BOOLEAN, usable \in BOOLEAN :
         /\ answered => k >= 1
         /\ ~answered => k = Len(order)
         /\ kReqs' = kReqs \o [i \in 1..k |-> Request(Head(kCalls), KCluster.Nodes[order[i]])]
         /\ IF ~answered
            THEN /\ kOut' = Append(kOut, Printed("Error fetching:", [kind |-> "fetch_from_any_node"]))
                 /\ kpc' = "done"
                 /\ UNCHANGED kCalls
            ELSE IF ~usable
            THEN /\ kOut' = Append(kOut, Printed("Invalid response", Nil))
                 /\ kpc' = "done"
                 /\ UNCHANGED kCalls
            ELSE /\ kCalls' = Tail(kCalls)
                 /\ kpc' = IF Tail(kCalls) = <<>> THEN "done" ELSE "call"
                 /\ kOut' = IF Tail(kCalls) = <<>> THEN Append(kOut, Printed("result", Nil)) ELSE kOut
    /\ UNCHANGED <<kCmd, kConfig>>
    /\ UNCHANGED <<vvars, cvars, tvars, lvars, uvars>>

\* lines 1313-1345 and 1404-1450: the single POST to the first node of the
\* range, and the report of what came back
KPost ==
    /\ kpc = "call"
    /\ kCalls /= <<>>
    /\ Head(kCalls).method = "POST"
    /\ \E order \in Orders(DOMAIN KCluster.Nodes) :
           kReqs' = Append(kReqs, Request(Head(kCalls), FirstAddr(KCluster, order)))
    /\ \E line \in {"Error sending request:", "Error decoding response:", "result"} :
           kOut' = Append(kOut, Printed(line, Nil))
    /\ kCalls' = Tail(kCalls)
    /\ kpc' = "done"
    /\ UNCHANGED <<kCmd, kConfig>>
    /\ UNCHANGED <<vvars, cvars, tvars, lvars, uvars>>

KNext ==
    \/ KSelectCluster
    \/ KGet
    \/ KPost

SpecK == KInit /\ [][KNext]_vars

\* C26: without a usable selection every cluster command ends at its first
\* step, having printed the selection error and sent no HTTP request.
C26_NoRequestWithoutCluster ==
    (kConfig.SelectedCluster = "" \/ kConfig.SelectedCluster \notin DOMAIN kConfig.Clusters) =>
        /\ kReqs = <<>>
        /\ kCalls = <<>>
        /\ kpc \in {"start", "done"}
        /\ kpc = "done" =>
              /\ Len(kOut) = 1
              /\ kOut[1].line = "Error:"
              /\ kOut[1].detail.kind =
                    (IF kConfig.SelectedCluster = "" THEN "no_cluster_selected"
                                                      ELSE "cluster_not_found")

C26_Witness ==
    /\ kpc = "done"
    /\ kCmd = "config set"
    /\ kConfig.SelectedCluster = "gone"
    /\ Cardinality(DOMAIN kConfig.Clusters["prod"].Nodes) = MaxNodes
    /\ kOut = <<Printed("Error:", [kind |-> "cluster_not_found", name |-> "gone"])>>
    /\ kReqs = <<>>

C26_WitnessUnselected ==
    /\ kpc = "done"
    /\ kCmd = "logs"
    /\ kConfig.SelectedCluster = ""
    /\ kOut = <<Printed("Error:", [kind |-> "no_cluster_selected"])>>
    /\ kReqs = <<>>

(***************************************************************************)
(* SpecU: successive `gocluster use <name>` invocations over one           *)
(* configuration file                                                      *)
(***************************************************************************)
MaxUses == 3

\* the keys of clusters in the configuration file
UClusters == {"prod", "staging"}

\* w is what viper.WriteConfig, and after a not-exist error os.MkdirAll and
\* viper.WriteConfigAs, came back with
Saved(w) == w \in {"saved", "notexist_saved"}

useCluster_noLookup(clusterName, selected, file, w, listing) ==
    IF Saved(w)
    THEN [SelectedCluster |-> clusterName, file |-> clusterName,
          out |-> <<Printed("Now using cluster:", clusterName)>>]
    ELSE [SelectedCluster |-> clusterName, file |-> file,
          out |-> <<Printed(IF w = "notexist_mkdir_error"
                            THEN "Error creating config directory:"
                            ELSE "Error saving config:", w)>>]

\* lines 855-888: config.SelectedCluster, selected_cluster of the file and
\* the output after useCluster; listing is the order of the range over
\* config.Clusters
useCluster(clusterName, selected, file, w, listing) ==
    IF clusterName \notin UClusters
    THEN [SelectedCluster |-> selected, file |-> file,
          out |-> <<Printed("Cluster not found. Available clusters:", clusterName)>>
                    \o [i \in DOMAIN listing |-> Printed("-", listing[i])]]
    ELSE IF Saved(w)
    THEN [SelectedCluster |-> clusterName, file |-> clusterName,
          out |-> <<Printed("Now using cluster:", clusterName)>>]
    ELSE [SelectedCluster |-> clusterName, file |-> file,
          out |-> <<Printed(IF w = "notexist_mkdir_error"
                            THEN "Error creating config directory:"
                            ELSE "Error saving config:", w)>>]

UInit ==
    /\ upc = "prompt"
    /\ uFile \in UClusters \cup {""}
    /\ uMem = uFile
    /\ uLog = <<>>
    /\ uOut = <<>>
    /\ VIdle
    /\ CIdle
    /\ TIdle
    /\ LIdle
    /\ KIdle

\* lines 714-735: a new process reads the file into config
InitConfig ==
    /\ upc = "prompt"
    /\ Len(uLog) < MaxUses
    /\ uMem' = uFile
    /\ \E clusterName \in UClusters \cup {"gone", ""} : uLog' = Append(uLog, clusterName)
    /\ uOut' = <<>>
    /\ upc' = "run"
    /\ UNCHANGED uFile
    /\ UNCHANGED <<vvars, cvars, tvars, lvars, kvars>>

\* the name given to the running `use`
ClusterName == uLog[Len(uLog)]

UseCluster ==
    /\ upc = "run"
    /\ \E w \in {"saved", "error", "notexist_mkdir_error", "notexist_saved", "notexist_error"},
          listing \in Orders(UClusters) :
         LET r == useCluster(ClusterName, uMem, uFile, w, listing) IN
           /\ uMem' = r.SelectedCluster
           /\ uFile' = r.file
           /\ uOut' = r.out
    /\ upc' = "prompt"
    /\ UNCHANGED uLog
    /\ UNCHANGED <<vvars, cvars, tvars, lvars, kvars>>

UNext ==
    \/ InitConfig
    \/ UseCluster

SpecU == UInit /\ [][UNext]_vars

\* C27: `use` with a name that is not configured changes neither
\* config.SelectedCluster nor the file; with a configured name it sets
\* config.SelectedCluster to the name and the file too, unless saving
\* failed, which it reports and which leaves the file as it was; so the
\* file's selection stays empty or a configured name.
C27_UseKeepsSelectionConfigured ==
    [][ /\ uFile' \in UClusters \cup {""}
        /\ (upc = "run" /\ upc' = "prompt") =>
              IF ClusterName \notin UClusters
              THEN /\ uMem' = uMem
                   /\ uFile' = uFile
              ELSE /\ uMem' = ClusterName
                   /\ \/ uFile' = ClusterName /\ uOut' = <<Printed("Now using cluster:", ClusterName)>>
                      \/ /\ uFile' = uFile
                         /\ Len(uOut') = 1
                         /\ uOut'[1].line \in {"Error saving config:",
                                                "Error creating config directory:"} ]_vars

C27_Witness ==
    /\ upc = "prompt"
    /\ uLog = <<"prod", "gone", "staging">>
    /\ uFile = "staging"
    /\ uMem = "staging"
    /\ uOut = <<Printed("Now using cluster:", "staging")>>

C27_WitnessUnknown ==
    /\ upc = "prompt"
    /\ uLog = <<"prod", "gone">>
    /\ uFile = "prod"
    /\ uMem = "prod"
    /\ Len(uOut) = 3

====
